---- MODULE Spec2Model ----
(***************************************************************************)
(* Model of notebooks/training.ipynb: the intent-classifier training       *)
(* notebook.  The notebook is a straight-line script; its state is the     *)
(* kernel's global variables and the three files it writes.  Each top-     *)
(* level statement of a code cell is one step, taken in cell order; an     *)
(* uncaught exception stops the run (pc = "halted").                       *)
(*                                                                         *)
(* Text is modelled at character level: a string is a sequence of          *)
(* characters, a word is such a sequence too.  A character is written as   *)
(* a one-character string, or by its code point ("U+0060", the backquote;  *)
(* "U+0307", the combining dot above) where that cannot be written or      *)
(* read.  The characters text is made of are those of Alphabet.  Python's  *)
(* 0-based positions are kept as the stored integers (encoded labels,      *)
(* word indices); TLA+ sequences are 1-based, so position p of a Python    *)
(* list is element p + 1 of the sequence that models it.                   *)
(***************************************************************************)
EXTENDS Integers, Sequences, FiniteSets, TLC

\* ------------------------------------------------------------------ bounds

\* Largest number of intent objects in the input file.
MaxIntents == 2

\* Largest number of patterns in the input file, all intents together.
MaxExamples == 3

\* ------------------------------------------------------------- input space

\* The tag strings used in input files, listed in Python's string order
\* (the order np.unique sorts them in).
TagOrder == <<"goodbye", "greeting">>

Tags == {TagOrder[i] : i \in 1..Len(TagOrder)}

\* "Hi, thEre there", its two E and e of "there" being U+00C9 and U+00E9
\* (E and e with acute accent)
PatA == <<"H","i",","," ","t","h","U+00C9","r","e"," ","t","h","U+00E9","r","e">>

\* "hi!"
PatB == <<"h","i","!">>

\* "?"
PatC == <<"?">>

\* The pattern strings used in input files.
Patterns == {PatA, PatB, PatC}

RECURSIVE SeqsOfLen(_, _)
\* All sequences over S of length exactly n.
SeqsOfLen(S, n) ==
    IF n = 0 THEN {<<>>}
    ELSE {Append(s, x) : s \in SeqsOfLen(S, n - 1), x \in S}

\* An element of the document's intent list, as the loop reads it: whether
\* it has the key 'tag' and the key 'patterns', and their values.
Intent(has_tag, has_patterns, tag, patterns) ==
    [has_tag |-> has_tag, has_patterns |-> has_patterns, tag |-> tag, patterns |-> patterns]

\* The well-formed intent objects holding m patterns.
IntentObjects(m) == {Intent(TRUE, TRUE, t, p) : t \in Tags, p \in SeqsOfLen(Patterns, m)}

\* The ill-formed intent objects holding m patterns: without the key 'tag',
\* and (m = 0) without the key 'patterns'.
IllFormedIntents(m) ==
    {Intent(FALSE, TRUE, "", p) : p \in SeqsOfLen(Patterns, m)}
    \cup (IF m = 0 THEN {Intent(TRUE, FALSE, TagOrder[1], <<>>)} ELSE {})

RECURSIVE IntentLists(_, _)
\* The lists of at most k well-formed intent objects holding at most n
\* patterns together.
IntentLists(k, n) ==
    IF k = 0 THEN {<<>>}
    ELSE {<<>>} \cup
         UNION {{<<i>> \o d : i \in IntentObjects(m), d \in IntentLists(k - 1, n - m)} :
                m \in 0..n}

\* The lists, within the same bounds, of well-formed intent objects followed
\* by one ill-formed one.
IllFormedLists(k, n) ==
    UNION {{Append(d, i) : d \in IntentLists(k - 1, n - m), i \in IllFormedIntents(m)} :
           m \in 0..n}

\* A parsed JSON document, as far as the notebook reads it: an object or a
\* list at the top, and for an object whether it has the key 'intents' and
\* that key's list.
Document(kind, has_intents, intents) ==
    [kind |-> kind, has_intents |-> has_intents, intents |-> intents]

\* The name data before the load cell has run.
NoDocument == Document("undefined", FALSE, <<>>)

\* The documents json.load can return: {"intents": [...]} with a list of
\* well-formed intents or one ending in an ill-formed intent, and the
\* documents {} and [], which lack the key.
Documents ==
    {Document("object", TRUE, d) :
        d \in IntentLists(MaxIntents, MaxExamples) \cup IllFormedLists(MaxIntents, MaxExamples)}
    \cup {Document("object", FALSE, <<>>), Document("list", FALSE, <<>>)}

\* What ../data/intents.json can be when the notebook starts: absent, not
\* parseable as JSON, or holding a JSON document.
InputFiles ==
    {[status |-> "missing", document |-> NoDocument],
     [status |-> "malformed", document |-> NoDocument]}
    \cup {[status |-> "ok", document |-> d] : d \in Documents}

\* ----------------------------------------------------------------- helpers

Range(s) == {s[i] : i \in 1..Len(s)}

Max(a, b) == IF a >= b THEN a ELSE b


\* ------------------------------------------------ Tokenizer (Keras), line 86

UpperLetters ==
    <<"A","B","C","D","E","F","G","H","I","J","K","L","M",
      "N","O","P","Q","R","S","T","U","V","W","X","Y","Z">>

LowerLetters ==
    <<"a","b","c","d","e","f","g","h","i","j","k","l","m",
      "n","o","p","q","r","s","t","u","v","w","x","y","z">>

\* The characters that are neither letters nor filtered: the space (the
\* split character), the apostrophe and the combining dot above.
OtherCharacters == {" ", "'", "U+0307"}

\* What str.lower() makes of each upper-case letter standing alone: one
\* character, or two for the capital I with dot above (U+0130).  U+00C9 is
\* the capital E with acute accent, U+03A3 the capital sigma, U+03C3 the
\* small sigma and U+03C2 the small final sigma.
LowerOf ==
    [c \in Range(UpperLetters) \cup {"U+00C9", "U+0130", "U+03A3"} |->
        CASE c = "U+00C9" -> <<"U+00E9">>
          [] c = "U+0130" -> <<"i", "U+0307">>
          [] c = "U+03A3" -> <<"U+03C3">>
          [] OTHER -> <<LowerLetters[CHOOSE i \in 1..Len(UpperLetters) : UpperLetters[i] = c]>>]

\* The Unicode property Cased, on the alphabet.
Cased(c) == c \in DOMAIN LowerOf \/ c \in Range(LowerLetters) \cup {"U+00E9", "U+03C3", "U+03C2"}

\* The Unicode property Case_Ignorable, on the alphabet.
CaseIgnorable(c) == c \in {"'", ".", ":", "^", "U+0060", "U+0307"}

\* str.lower() on one character standing alone.
LowerChar(c) == IF c \in DOMAIN LowerOf THEN LowerOf[c] ELSE <<c>>

\* Whether the capital sigma at position i is in the Final_Sigma context:
\* the nearest character before it that is not case-ignorable is cased, and
\* the nearest such character after it, if any, is not.
FinalSigma(text, i) ==
    LET before == {j \in 1..(i - 1) : ~CaseIgnorable(text[j])}
        after == {j \in (i + 1)..Len(text) : ~CaseIgnorable(text[j])}
    IN  /\ before # {}
        /\ Cased(text[CHOOSE j \in before : \A k \in before : k <= j])
        /\ after # {} => ~Cased(text[CHOOSE j \in after : \A k \in after : j <= k])

RECURSIVE LowerFrom(_, _)
\* str.lower() on the characters of text from position i on.
LowerFrom(text, i) ==
    IF i > Len(text) THEN <<>>
    ELSE (IF text[i] = "U+03A3" /\ FinalSigma(text, i) THEN <<"U+03C2">> ELSE LowerChar(text[i]))
         \o LowerFrom(text, i + 1)

\* str.lower() on a string.
Lower(text) == LowerFrom(text, 1)

\* Tokenizer's default filters: the ASCII punctuation except the apostrophe,
\* plus tab and newline.
Filters ==
    {"!", "\"", "#", "$", "%", "&", "(", ")", "*", "+", ",", "-", ".", "/",
     ":", ";", "<", "=", ">", "?", "@", "[", "\\", "]", "^", "_", "U+0060", "{",
     "|", "}", "~", "\t", "\n"}

\* The characters a modelled text can hold.
Alphabet ==
    Range(UpperLetters) \cup Range(LowerLetters) \cup {"U+00C9", "U+00E9", "U+0130", "U+03A3", "U+03C3", "U+03C2"}
    \cup Filters \cup OtherCharacters

\* str.translate with every filter character mapped to the split character.
Translate(text) == [i \in 1..Len(text) |-> IF text[i] \in Filters THEN " " ELSE text[i]]

RECURSIVE PySplit(_, _, _)
\* str.split(' '): the pieces between single spaces, empty pieces included.
\* cur is the piece being read, acc the pieces already closed.
PySplit(text, cur, acc) ==
    IF text = <<>> THEN Append(acc, cur)
    ELSE IF Head(text) = " " THEN PySplit(Tail(text), <<>>, Append(acc, cur))
    ELSE PySplit(Tail(text), Append(cur, Head(text)), acc)

IsNonEmpty(w) == w # <<>>

\* text_to_word_sequence with lower = True (Tokenizer's default) or False:
\* lower-case, filter, split on ' ', drop the empty pieces.
WordSequence(text, lower) ==
    LET t == IF lower THEN Lower(text) ELSE text
    IN  SelectSeq(PySplit(Translate(t), <<>>, <<>>), IsNonEmpty)

text_to_word_sequence(text) == WordSequence(text, TRUE)

\* The oov_token given to Tokenizer: '<OOV>'.
OovToken == <<"<", "O", "O", "V", ">">>

\* word_counts[w] += 1 on an insertion-ordered dict, kept as a sequence of
\* [word, count] in first-seen order.
CountWord(counts, w) ==
    IF \E i \in 1..Len(counts) : counts[i].word = w
    THEN [i \in 1..Len(counts) |->
            IF counts[i].word = w
            THEN [word |-> w, count |-> counts[i].count + 1]
            ELSE counts[i]]
    ELSE Append(counts, [word |-> w, count |-> 1])

RECURSIVE CountWords(_, _)
CountWords(counts, words) ==
    IF words = <<>> THEN counts
    ELSE CountWords(CountWord(counts, Head(words)), Tail(words))

RECURSIVE CountTexts(_, _)
\* fit_on_texts' loop over the texts.
CountTexts(counts, texts) ==
    IF texts = <<>> THEN counts
    ELSE CountTexts(CountWords(counts, text_to_word_sequence(Head(texts))), Tail(texts))

RECURSIVE InsertByCount(_, _)
\* One step of the stable sort by count, largest first: e goes after every
\* element whose count is at least its own.
InsertByCount(sorted, e) ==
    IF sorted = <<>> THEN <<e>>
    ELSE IF Head(sorted).count >= e.count
         THEN <<Head(sorted)>> \o InsertByCount(Tail(sorted), e)
         ELSE <<e>> \o sorted

RECURSIVE SortByCount(_, _)
\* wcounts.sort(key = count, reverse = True): stable.
SortByCount(sorted, rest) ==
    IF rest = <<>> THEN sorted
    ELSE SortByCount(InsertByCount(sorted, Head(rest)), Tail(rest))

\* dict(zip(voc, range(1, len(voc) + 1))): a later duplicate key wins.
ZipIndex(voc) ==
    [w \in Range(voc) |->
        CHOOSE i \in 1..Len(voc) :
            /\ voc[i] = w
            /\ \A j \in 1..Len(voc) : voc[j] = w => j <= i]

\* SortedVoc as it would be for a Tokenizer built without oov_token: no
\* reserved entry at the front.
SortedVocWithoutOov(counts) ==
    LET wcounts == SortByCount(<<>>, counts)
    IN  [i \in 1..Len(wcounts) |-> wcounts[i].word]

\* The vocabulary list with the OOV token forced to the front.
SortedVoc(counts) ==
    LET wcounts == SortByCount(<<>>, counts)
    IN  <<OovToken>> \o [i \in 1..Len(wcounts) |-> wcounts[i].word]

\* Tokenizer(oov_token = '<OOV>') before fitting.
NewTokenizer == [oov_token |-> OovToken, word_counts |-> <<>>, word_index |-> <<>>]

\* tokenizer.fit_on_texts(texts).
fit_on_texts(tok, texts) ==
    LET counts == CountTexts(tok.word_counts, texts)
    IN  [tok EXCEPT !.word_counts = counts, !.word_index = ZipIndex(SortedVoc(counts))]

\* One word of texts_to_sequences (num_words is None): its index, or the
\* OOV token's index for a word the vocabulary lacks.
WordToIndex(tok, w) ==
    IF w \in DOMAIN tok.word_index THEN tok.word_index[w]
    ELSE tok.word_index[tok.oov_token]

\* TextToSequence with the text split without lower-casing it.
TextToSequenceCaseSensitive(tok, text) ==
    LET seq == WordSequence(text, FALSE)
    IN  [i \in 1..Len(seq) |-> WordToIndex(tok, seq[i])]

\* One text of texts_to_sequences.
TextToSequence(tok, text) ==
    LET seq == text_to_word_sequence(text)
    IN  [i \in 1..Len(seq) |-> WordToIndex(tok, seq[i])]

\* tokenizer.texts_to_sequences(texts).
texts_to_sequences(tok, texts) == [i \in 1..Len(texts) |-> TextToSequence(tok, texts[i])]

\* ------------------------------------------------ pad_sequences, line 97

\* Python's s[-n:]: the last n elements, and the whole of s when n = 0.
LastSlice(s, n) ==
    IF n = 0 \/ n >= Len(s) THEN s
    ELSE SubSeq(s, Len(s) - n + 1, Len(s))

\* PadRow with pad_sequences' default padding = 'pre': the zeros come first.
PadRowPre(s, maxlen) ==
    IF s = <<>> THEN [j \in 1..maxlen |-> 0]
    ELSE LET trunc == LastSlice(s, maxlen)
             shift == maxlen - Len(trunc)
         IN  [j \in 1..maxlen |-> IF j > shift THEN trunc[j - shift] ELSE 0]

\* One row of pad_sequences(..., maxlen, padding = 'post') with the default
\* truncating = 'pre' and value = 0: an empty sequence is skipped (the row
\* stays all zeros); another is cut to its last maxlen entries and written
\* at the start of the row.
PadRow(s, maxlen) ==
    IF s = <<>> THEN [j \in 1..maxlen |-> 0]
    ELSE LET trunc == LastSlice(s, maxlen)
         IN  [j \in 1..maxlen |-> IF j <= Len(trunc) THEN trunc[j] ELSE 0]

pad_sequences(seqs, maxlen) == [i \in 1..Len(seqs) |-> PadRow(seqs[i], maxlen)]

RECURSIVE MaxLen(_)
\* max(len(seq) for seq in sequences), for a non-empty list.
MaxLen(seqs) ==
    IF Len(seqs) = 1 THEN Len(seqs[1])
    ELSE Max(Len(Head(seqs)), MaxLen(Tail(seqs)))

\* ------------------------------------------------ LabelEncoder, lines 113-121

\* Python's order on the tag strings.
StrLess(a, b) ==
    \E i, j \in 1..Len(TagOrder) : TagOrder[i] = a /\ TagOrder[j] = b /\ i < j

RECURSIVE InsertSorted(_, _)
\* InsertUnique without the test for a value already present: a sort that
\* keeps duplicates.
InsertSorted(sorted, x) ==
    IF sorted = <<>> THEN <<x>>
    ELSE IF StrLess(x, Head(sorted)) THEN <<x>> \o sorted
    ELSE <<Head(sorted)>> \o InsertSorted(Tail(sorted), x)

RECURSIVE InsertUnique(_, _)
\* One step of np.unique: x put at its sorted place unless already there.
InsertUnique(sorted, x) ==
    IF sorted = <<>> THEN <<x>>
    ELSE IF Head(sorted) = x THEN sorted
    ELSE IF StrLess(x, Head(sorted)) THEN <<x>> \o sorted
    ELSE <<Head(sorted)>> \o InsertUnique(Tail(sorted), x)

RECURSIVE Unique(_, _)
\* np.unique(y): the distinct values, sorted.
Unique(sorted, y) ==
    IF y = <<>> THEN sorted
    ELSE Unique(InsertUnique(sorted, Head(y)), Tail(y))

\* label_encoder.fit(y): classes_.
label_encoder_fit(y) == Unique(<<>>, y)

\* The 0-based position of a label in classes_.
ClassIndex(classes, label) == (CHOOSE i \in 1..Len(classes) : classes[i] = label) - 1

\* label_encoder.transform(y).
label_encoder_transform(classes, y) == [i \in 1..Len(y) |-> ClassIndex(classes, y[i])]

\* label_encoder.inverse_transform on one integer: classes_[k].
inverse_transform(classes, k) == classes[k + 1]

\* to_categorical with the 1 written one position too far to the right.
to_categorical_shifted(y, n) ==
    [i \in 1..Len(y) |-> [j \in 1..n |-> IF j - 2 = y[i] THEN 1 ELSE 0]]

\* tf.keras.utils.to_categorical(y, num_classes): row i has a 1 at the
\* 0-based position y[i].
to_categorical(y, n) ==
    [i \in 1..Len(y) |-> [j \in 1..n |-> IF j - 1 = y[i] THEN 1 ELSE 0]]

\* ------------------------------------------------ Sequential model, lines 137-154

Embedding(input_dim, output_dim, input_length) ==
    [kind |-> "Embedding", units |-> output_dim, input_dim |-> input_dim,
     input_length |-> input_length, return_sequences |-> FALSE,
     activation |-> "none", rate_percent |-> 0]

LSTM(units, return_sequences) ==
    [kind |-> "LSTM", units |-> units, input_dim |-> 0, input_length |-> 0,
     return_sequences |-> return_sequences, activation |-> "tanh", rate_percent |-> 0]

Dropout(rate_percent) ==
    [kind |-> "Dropout", units |-> 0, input_dim |-> 0, input_length |-> 0,
     return_sequences |-> FALSE, activation |-> "none", rate_percent |-> rate_percent]

Dense(units, activation) ==
    [kind |-> "Dense", units |-> units, input_dim |-> 0, input_length |-> 0,
     return_sequences |-> FALSE, activation |-> activation, rate_percent |-> 0]

\* Sequential with the second Dropout layer left out.
SequentialOneDropout(vocab_size, input_length, n_classes) ==
    [layers |-> << Embedding(vocab_size, 64, input_length),
                   LSTM(64, TRUE),
                   Dropout(50),
                   LSTM(32, FALSE),
                   Dense(32, "relu"),
                   Dense(n_classes, "softmax") >>,
     trained |-> FALSE]

\* Sequential([...]) of the model cell, compiled; its weights are untrained.
Sequential(vocab_size, input_length, n_classes) ==
    [layers |-> << Embedding(vocab_size, 64, input_length),
                   LSTM(64, TRUE),
                   Dropout(50),
                   LSTM(32, FALSE),
                   Dropout(50),
                   Dense(32, "relu"),
                   Dense(n_classes, "softmax") >>,
     trained |-> FALSE]

\* The name model before the model cell has run.
NoModel == [layers |-> <<>>, trained |-> FALSE]

\* ------------------------------------------------------------------- state

VARIABLES
    pc,                   \* the statement to run next, "done" or "halted"
    raised,               \* the statement whose exception stopped the run, or "none"
    log,                  \* the statements completed so far, in order
    intents_json,         \* ../data/intents.json as found on disk
    data,                 \* the parsed document
    sentences,
    labels,
    tokenizer,
    word_index,
    sequences,
    max_length,
    padded_sequences,
    label_encoder,        \* label_encoder.classes_
    encoded_labels,
    num_classes,
    one_hot_labels,
    model,
    chatbot_model_h5,     \* ../model/chatbot_model.h5
    tokenizer_pickle,     \* ../model/tokenizer.pickle
    label_encoder_pickle  \* ../model/label_encoder.pickle

control == <<pc, raised, log>>

prepared == <<data, sentences, labels>>

tokenized == <<tokenizer, word_index, sequences, max_length, padded_sequences>>

encoded == <<label_encoder, encoded_labels, num_classes, one_hot_labels>>

files == <<chatbot_model_h5, tokenizer_pickle, label_encoder_pickle>>

vars == <<control, intents_json, prepared, tokenized, encoded, model, files>>

\* An output file the run has not touched: absent, or as an earlier run
\* left it.  A file is "untouched", "partial" (opened for writing, so
\* created or truncated, but not written to the end) or "complete".
NoFile(content) == [state |-> "untouched", content |-> content]

\* A file the statement wrote to the end.
CompleteFile(content) == [state |-> "complete", content |-> content]

\* A file opened for writing whose write then failed: it exists, and does
\* not hold what was to be saved.
PartialFile(file) == [file EXCEPT !.state = "partial"]

Init ==
    /\ pc = "load"
    /\ raised = "none"
    /\ log = <<>>
    /\ intents_json \in InputFiles
    /\ data = NoDocument
    /\ sentences = <<>>
    /\ labels = <<>>
    /\ tokenizer = NewTokenizer
    /\ word_index = <<>>
    /\ sequences = <<>>
    /\ max_length = 0
    /\ padded_sequences = <<>>
    /\ label_encoder = <<>>
    /\ encoded_labels = <<>>
    /\ num_classes = 0
    /\ one_hot_labels = <<>>
    /\ model = NoModel
    /\ chatbot_model_h5 = NoFile(NoModel)
    /\ tokenizer_pickle = NoFile(NewTokenizer)
    /\ label_encoder_pickle = NoFile(<<>>)

\* Statement stmt completes and control passes to next.
Goto(stmt, next) ==
    /\ pc' = next
    /\ log' = Append(log, stmt)
    /\ raised' = raised

\* Statement stmt raises: nothing catches it, the run stops.
Raise(stmt) ==
    /\ pc' = "halted"
    /\ raised' = stmt
    /\ log' = log

\* Load with the exception caught and an empty intent list used instead of
\* the file's.
LoadCatching ==
    /\ pc = "load"
    /\ data' = IF intents_json.status = "ok" THEN intents_json.document
               ELSE Document("object", TRUE, <<>>)
    /\ Goto("load", "prepare")
    /\ UNCHANGED <<intents_json, sentences, labels, tokenized, encoded, model, files>>

\* Lines 45-46: open the file and json.load it.
Load ==
    /\ pc = "load"
    /\ IF intents_json.status = "ok"
       THEN /\ data' = intents_json.document
            /\ Goto("load", "prepare")
       ELSE /\ data' = data
            /\ Raise("load")
    /\ UNCHANGED <<intents_json, sentences, labels, tokenized, encoded, model, files>>

\* TagsFor with labels.append outside the inner loop: one tag per intent.
TagsForOnce(intent) == <<intent.tag>>

\* The tags the inner loop appends for one intent: one per pattern.
TagsFor(intent) == [k \in 1..Len(intent.patterns) |-> intent.tag]

RECURSIVE AppendLoop(_, _, _)
\* The loop of lines 66-69 over the intents left, from the lists s and l
\* built so far.  intent['patterns'] raises KeyError for an intent without
\* that key; intent['tag'] raises KeyError for an intent without it, after
\* the intent's first pattern was appended to the sentences.
AppendLoop(intents, s, l) ==
    IF intents = <<>> THEN [sentences |-> s, labels |-> l, raised |-> FALSE]
    ELSE LET intent == Head(intents)
         IN  IF ~intent.has_patterns
             THEN [sentences |-> s, labels |-> l, raised |-> TRUE]
             ELSE IF intent.patterns # <<>> /\ ~intent.has_tag
             THEN [sentences |-> Append(s, intent.patterns[1]), labels |-> l,
                   raised |-> TRUE]
             ELSE AppendLoop(Tail(intents), s \o intent.patterns, l \o TagsFor(intent))

\* Lines 62-69 on a parsed document: data['intents'] raises KeyError on an
\* object without the key and TypeError on a list, after both lists were
\* set to [].
PrepareLoop(document) ==
    IF document.kind = "object" /\ document.has_intents
    THEN AppendLoop(document.intents, <<>>, <<>>)
    ELSE [sentences |-> <<>>, labels |-> <<>>, raised |-> TRUE]

\* Lines 62-69: the data-preparation loop.
Prepare ==
    /\ pc = "prepare"
    /\ LET result == PrepareLoop(data)
       IN  /\ sentences' = result.sentences
           /\ labels' = result.labels
           /\ IF result.raised THEN Raise("prepare") ELSE Goto("prepare", "fit_on_texts")
    /\ UNCHANGED <<intents_json, data, tokenized, encoded, model, files>>

\* Lines 86-88: build the tokenizer, fit it, take its word_index.
FitOnTexts ==
    /\ pc = "fit_on_texts"
    /\ tokenizer' = fit_on_texts(NewTokenizer, sentences)
    /\ word_index' = tokenizer'.word_index
    /\ Goto("fit_on_texts", "texts_to_sequences")
    /\ UNCHANGED <<intents_json, prepared, sequences, max_length, padded_sequences,
                   encoded, model, files>>

\* Line 91.
TextsToSequences ==
    /\ pc = "texts_to_sequences"
    /\ sequences' = texts_to_sequences(tokenizer, sentences)
    /\ Goto("texts_to_sequences", "max_length")
    /\ UNCHANGED <<intents_json, prepared, tokenizer, word_index, max_length,
                   padded_sequences, encoded, model, files>>

\* Line 94: max() of an empty generator raises ValueError.
MaxLength ==
    /\ pc = "max_length"
    /\ IF sequences = <<>>
       THEN /\ max_length' = max_length
            /\ Raise("max_length")
       ELSE /\ max_length' = MaxLen(sequences)
            /\ Goto("max_length", "pad_sequences")
    /\ UNCHANGED <<intents_json, prepared, tokenizer, word_index, sequences,
                   padded_sequences, encoded, model, files>>

\* Line 97.
PadSequences ==
    /\ pc = "pad_sequences"
    /\ padded_sequences' = pad_sequences(sequences, max_length)
    /\ Goto("pad_sequences", "label_encoder_fit")
    /\ UNCHANGED <<intents_json, prepared, tokenizer, word_index, sequences,
                   max_length, encoded, model, files>>

\* Lines 113-114.
LabelEncoderFit ==
    /\ pc = "label_encoder_fit"
    /\ label_encoder' = label_encoder_fit(labels)
    /\ Goto("label_encoder_fit", "transform")
    /\ UNCHANGED <<intents_json, prepared, tokenized, encoded_labels, num_classes,
                   one_hot_labels, model, files>>

\* Line 117.
Transform ==
    /\ pc = "transform"
    /\ encoded_labels' = label_encoder_transform(label_encoder, labels)
    /\ Goto("transform", "to_categorical")
    /\ UNCHANGED <<intents_json, prepared, tokenized, label_encoder, num_classes,
                   one_hot_labels, model, files>>

\* Lines 120-121.
ToCategorical ==
    /\ pc = "to_categorical"
    /\ num_classes' = Len(label_encoder)
    /\ one_hot_labels' = to_categorical(encoded_labels, num_classes')
    /\ Goto("to_categorical", "build")
    /\ UNCHANGED <<intents_json, prepared, tokenized, label_encoder, encoded_labels,
                   model, files>>

\* Build with the untrained model saved as soon as it is built.
BuildAndSave ==
    /\ pc = "build"
    /\ model' = Sequential(Cardinality(DOMAIN word_index) + 1, max_length, num_classes)
    /\ chatbot_model_h5' = CompleteFile(model')
    /\ Goto("build", "fit")
    /\ UNCHANGED <<intents_json, prepared, tokenized, encoded,
                   tokenizer_pickle, label_encoder_pickle>>

\* Lines 137-157: build and compile the network.
Build ==
    /\ pc = "build"
    /\ model' = Sequential(Cardinality(DOMAIN word_index) + 1, max_length, num_classes)
    /\ Goto("build", "fit")
    /\ UNCHANGED <<intents_json, prepared, tokenized, encoded, files>>

\* Line 174: model.fit changes the model's weights and nothing else; an
\* exception inside the library's training loop stops the run.
Fit ==
    /\ pc = "fit"
    /\ \/ /\ model' = [model EXCEPT !.trained = TRUE]
          /\ Goto("fit", "save_model")
       \/ /\ model' = model
          /\ Raise("fit")
    /\ UNCHANGED <<intents_json, prepared, tokenized, encoded, files>>

\* Line 185: model.save.  It raises when the file cannot be created, and
\* when writing fails after the file was created.
SaveModel ==
    /\ pc = "save_model"
    /\ \/ /\ chatbot_model_h5' = CompleteFile(model)
          /\ Goto("save_model", "save_tokenizer")
       \/ /\ chatbot_model_h5' = chatbot_model_h5
          /\ Raise("save_model")
       \/ /\ chatbot_model_h5' = PartialFile(chatbot_model_h5)
          /\ Raise("save_model")
    /\ UNCHANGED <<intents_json, prepared, tokenized, encoded, model,
                   tokenizer_pickle, label_encoder_pickle>>

\* SaveTokenizer pickling a tokenizer fitted anew, without the OOV token's
\* reserved index, instead of the one the sequences were encoded with.
SaveRefittedTokenizer ==
    /\ pc = "save_tokenizer"
    /\ \/ /\ tokenizer_pickle' =
                CompleteFile([tokenizer EXCEPT
                    !.word_index = ZipIndex(SortedVocWithoutOov(tokenizer.word_counts))])
          /\ Goto("save_tokenizer", "save_label_encoder")
       \/ /\ tokenizer_pickle' = tokenizer_pickle
          /\ Raise("save_tokenizer")
       \/ /\ tokenizer_pickle' = PartialFile(tokenizer_pickle)
          /\ Raise("save_tokenizer")
    /\ UNCHANGED <<intents_json, prepared, tokenized, encoded, model,
                   chatbot_model_h5, label_encoder_pickle>>

\* Lines 188-189: pickle the tokenizer.  open(..., 'wb') raises with the
\* file as it was; pickle.dump raises with the file created or truncated.
SaveTokenizer ==
    /\ pc = "save_tokenizer"
    /\ \/ /\ tokenizer_pickle' = CompleteFile(tokenizer)
          /\ Goto("save_tokenizer", "save_label_encoder")
       \/ /\ tokenizer_pickle' = tokenizer_pickle
          /\ Raise("save_tokenizer")
       \/ /\ tokenizer_pickle' = PartialFile(tokenizer_pickle)
          /\ Raise("save_tokenizer")
    /\ UNCHANGED <<intents_json, prepared, tokenized, encoded, model,
                   chatbot_model_h5, label_encoder_pickle>>

\* Lines 191-192: pickle the label encoder, as for the tokenizer.
SaveLabelEncoder ==
    /\ pc = "save_label_encoder"
    /\ \/ /\ label_encoder_pickle' = CompleteFile(label_encoder)
          /\ Goto("save_label_encoder", "done")
       \/ /\ label_encoder_pickle' = label_encoder_pickle
          /\ Raise("save_label_encoder")
       \/ /\ label_encoder_pickle' = PartialFile(label_encoder_pickle)
          /\ Raise("save_label_encoder")
    /\ UNCHANGED <<intents_json, prepared, tokenized, encoded, model,
                   chatbot_model_h5, tokenizer_pickle>>

Next ==
    \/ Load
    \/ Prepare
    \/ FitOnTexts
    \/ TextsToSequences
    \/ MaxLength
    \/ PadSequences
    \/ LabelEncoderFit
    \/ Transform
    \/ ToCategorical
    \/ Build
    \/ Fit
    \/ SaveModel
    \/ SaveTokenizer
    \/ SaveLabelEncoder

Spec == Init /\ [][Next]_vars

\* ------------------------------------------------------------------ claims

\* Statement stmt has run to completion.
Completed(stmt) == stmt \in Range(log)

\* The number of tokens of a training sentence.
TokenCount(text) == Len(text_to_word_sequence(text))

\* C1: once padding has run, padded_sequences has one row per sentence, every
\* row is exactly max_length long, max_length is the largest token count of
\* any sentence, and row i is the whole integer sequence of sentence i, in
\* order, followed by zeros only.
PaddedRowsKeepSequences ==
    Completed("pad_sequences") =>
        \A count \in {[i \in 1..Len(sentences) |-> TokenCount(sentences[i])]} :
            /\ Len(padded_sequences) = Len(sentences)
            /\ \A i \in 1..Len(sentences) : count[i] <= max_length
            /\ \E i \in 1..Len(sentences) : count[i] = max_length
            /\ \A i \in 1..Len(padded_sequences) :
                  LET row == padded_sequences[i]
                      seq == sequences[i]
                  IN  /\ Len(row) = max_length
                      /\ Len(seq) = count[i]
                      /\ \A j \in 1..Len(seq) : row[j] = seq[j]
                      /\ \A j \in (Len(seq) + 1)..max_length : row[j] = 0

\* C1's case: padding has run on sentences of different token counts, so one
\* row is full and another ends in padding.
PaddedRowsWitness ==
    /\ Completed("pad_sequences")
    /\ max_length >= 2
    /\ \E i \in 1..Len(sequences) : Len(sequences[i]) = max_length
    /\ \E i \in 1..Len(sequences) :
          /\ Len(sequences[i]) >= 1
          /\ Len(sequences[i]) < max_length
          /\ padded_sequences[i][max_length] = 0

RECURSIVE SumSeq(_)
SumSeq(row) == IF row = <<>> THEN 0 ELSE Head(row) + SumSeq(Tail(row))

\* C2: once the one-hot expansion has run, row i of one_hot_labels is
\* num_classes long, holds a 1 at position encoded_labels[i] and 0 elsewhere,
\* and sums to 1.
OneHotRowsHaveOneOne ==
    Completed("to_categorical") =>
        /\ Len(one_hot_labels) = Len(labels)
        /\ \A i \in 1..Len(one_hot_labels) :
              LET row == one_hot_labels[i]
              IN  /\ Len(row) = num_classes
                  /\ encoded_labels[i] \in 0..(num_classes - 1)
                  /\ row[encoded_labels[i] + 1] = 1
                  /\ \A j \in 1..num_classes : j # encoded_labels[i] + 1 => row[j] = 0
                  /\ SumSeq(row) = 1

\* C2's case: two classes, and examples of both.
OneHotWitness ==
    /\ Completed("to_categorical")
    /\ num_classes = 2
    /\ \E i, k \in 1..Len(one_hot_labels) :
          /\ one_hot_labels[i] = <<1, 0>>
          /\ one_hot_labels[k] = <<0, 1>>

\* The distinct words of the training sentences: the tokens the tokenizer's
\* text_to_word_sequence finds in them.
DistinctWords == UNION {Range(text_to_word_sequence(sentences[i])) : i \in 1..Len(sentences)}

\* C3: the Embedding layer's input_dim is the number of distinct words of
\* the training sentences, plus one for the out-of-vocabulary token, plus one.
VocabularySizeIsWordsPlusTwo ==
    Completed("build") =>
        model.layers[1].input_dim = Cardinality(DistinctWords) + 1 + 1

\* C3's case: the model was built from sentences that repeat a word, in
\* different letter case, among others.
VocabularySizeWitness ==
    /\ Completed("build")
    /\ Cardinality(DistinctWords) = 2
    /\ PatA \in Range(sentences)
    /\ PatB \in Range(sentences)

\* C4: classes_ and the 0-based positions in it are a bijection between the
\* distinct tags of labels and 0..num_classes-1: tag -> integer -> tag and
\* integer -> tag -> integer are identities, and num_classes is the number
\* of distinct tags.
LabelEncodingIsBijection ==
    /\ Completed("label_encoder_fit") =>
          /\ Range(label_encoder) = Range(labels)
          /\ Len(label_encoder) = Cardinality(Range(labels))
          /\ \A t \in Range(labels) :
                /\ ClassIndex(label_encoder, t) \in 0..(Len(label_encoder) - 1)
                /\ inverse_transform(label_encoder, ClassIndex(label_encoder, t)) = t
          /\ \A k \in 0..(Len(label_encoder) - 1) :
                ClassIndex(label_encoder, inverse_transform(label_encoder, k)) = k
    /\ Completed("transform") =>
          \A i \in 1..Len(labels) :
              inverse_transform(label_encoder, encoded_labels[i]) = labels[i]
    /\ Completed("to_categorical") => num_classes = Cardinality(Range(labels))

\* C4's case: two tags, each occurring, one of them more than once, met in
\* the file in the reverse of their sorted order.
LabelEncodingWitness ==
    /\ Completed("to_categorical")
    /\ Len(labels) = 3
    /\ labels[1] = "greeting"
    /\ "goodbye" \in Range(labels)
    /\ encoded_labels[1] = 1

RECURSIVE Offset(_, _)
\* The number of patterns in the first a intents.
Offset(intents, a) ==
    IF a = 0 THEN 0 ELSE Offset(intents, a - 1) + Len(intents[a].patterns)

\* C5: after the data-preparation loop, sentences and labels are as long as
\* the total number of patterns, and pattern b of intent a sits, with the
\* intent's tag, at the position given by the input order.
SentencesAndLabelsAlign ==
    Completed("prepare") =>
        /\ Len(sentences) = Offset(data.intents, Len(data.intents))
        /\ Len(labels) = Len(sentences)
        /\ \A a \in 1..Len(data.intents) :
              \A b \in 1..Len(data.intents[a].patterns) :
                  /\ sentences[Offset(data.intents, a - 1) + b] = data.intents[a].patterns[b]
                  /\ labels[Offset(data.intents, a - 1) + b] = data.intents[a].tag

\* C5's case: two intents with different tags, the first with two different
\* patterns.
SentencesAndLabelsWitness ==
    /\ Completed("prepare")
    /\ Len(data.intents) = 2
    /\ data.intents[1].tag = "greeting"
    /\ data.intents[2].tag = "goodbye"
    /\ Len(data.intents[1].patterns) = 2
    /\ data.intents[1].patterns[1] # data.intents[1].patterns[2]
    /\ Len(data.intents[2].patterns) = 1

\* The run has created, truncated or written an output file.
AnyFileWritten ==
    \/ chatbot_model_h5.state # "untouched"
    \/ tokenizer_pickle.state # "untouched"
    \/ label_encoder_pickle.state # "untouched"

\* C6: when the input file is missing or malformed, the run halts at the
\* load statement: no statement completes and no artifact is written.
LoadFailureHaltsEverything ==
    intents_json.status # "ok" =>
        /\ pc \in {"load", "halted"}
        /\ pc = "halted" => raised = "load"
        /\ log = <<>>
        /\ ~AnyFileWritten

\* C6's case: the load of a malformed file has been attempted.
LoadFailureWitness ==
    /\ intents_json.status = "malformed"
    /\ pc = "halted"
    /\ raised = "load"

SaveStatements == {"save_model", "save_tokenizer", "save_label_encoder"}

\* C7: every save statement runs after model.fit has completed, nothing but
\* save statements runs after a save statement, a written artifact implies a
\* trained model, and the load is the first statement to complete.
ArtifactsWrittenLast ==
    /\ log # <<>> => log[1] = "load"
    /\ \A i \in 1..Len(log) :
          log[i] \in SaveStatements =>
              /\ \E j \in 1..(i - 1) : log[j] = "fit"
              /\ \A j \in (i + 1)..Len(log) : log[j] \in SaveStatements
    /\ AnyFileWritten => Completed("fit") /\ model.trained
    /\ chatbot_model_h5.state = "complete" <=> Completed("save_model")
    /\ tokenizer_pickle.state = "complete" <=> Completed("save_tokenizer")
    /\ label_encoder_pickle.state = "complete" <=> Completed("save_label_encoder")
    /\ chatbot_model_h5.state = "partial" => raised = "save_model"
    /\ tokenizer_pickle.state = "partial" => raised = "save_tokenizer"
    /\ label_encoder_pickle.state = "partial" => raised = "save_label_encoder"

\* C7's case: the run reached its end and wrote the three artifacts.
ArtifactsWitness ==
    /\ pc = "done"
    /\ chatbot_model_h5.state = "complete"
    /\ tokenizer_pickle.state = "complete"
    /\ label_encoder_pickle.state = "complete"
    /\ chatbot_model_h5.content.trained

\* C8: word_index (the notebook's name and the tokenizer's field) changes
\* only in the fitting statement, and a written tokenizer file holds the
\* vocabulary the training sequences were encoded with.
VocabularyFrozenAfterFit ==
    [][ /\ (word_index' # word_index \/ tokenizer'.word_index # tokenizer.word_index)
            => pc = "fit_on_texts"
        /\ tokenizer_pickle'.state = "complete" =>
              /\ tokenizer_pickle'.content.word_index = word_index'
              /\ tokenizer_pickle'.content.word_index = tokenizer'.word_index
              /\ sequences' = texts_to_sequences(tokenizer_pickle'.content, sentences') ]_vars

\* C8's case: a tokenizer with a vocabulary of three entries was persisted.
VocabularyFrozenWitness ==
    /\ tokenizer_pickle.state = "complete"
    /\ Cardinality(DOMAIN word_index) = 3
    /\ \E i \in 1..Len(sequences) : Len(sequences[i]) = 3

\* C9 as stated: the network has exactly 6 layers.
NetworkHasSixLayers == Completed("build") => Len(model.layers) = 6

\* The layer kinds of the model cell, in order.
LayerKinds == <<"Embedding", "LSTM", "Dropout", "LSTM", "Dropout", "Dense", "Dense">>

\* C9 amended: the network has exactly 7 layers (Embedding, LSTM, Dropout,
\* LSTM, Dropout, Dense, Dense), the same for every dataset; only the
\* embedding's input size and input length and the last layer's width come
\* from the data.
NetworkHasSevenLayers ==
    Completed("build") =>
        /\ Len(model.layers) = 7
        /\ \A i \in 1..Len(model.layers) : model.layers[i].kind = LayerKinds[i]
        /\ model.layers[1].input_dim = Cardinality(DOMAIN word_index) + 1
        /\ model.layers[1].input_length = max_length
        /\ model.layers[7].units = num_classes
        /\ \A i \in 1..Len(model.layers) :
              LET fixed == [model.layers[i] EXCEPT !.input_dim = 0, !.input_length = 0]
                  sample == Sequential(0, 0, 0).layers[i]
              IN  IF i = 7 THEN [fixed EXCEPT !.units = 0] = sample ELSE fixed = sample

\* C9's case: models built for datasets of different vocabulary and class
\* count; here one with two classes and rows of three tokens.
NetworkWitness ==
    /\ Completed("build")
    /\ Len(model.layers) = 7
    /\ model.layers[7].units = 2
    /\ model.layers[1].input_length = 3

\* C10: every entry of padded_sequences is below the embedding's input size;
\* it is 0 at a padding position and nowhere else, and at a token's position
\* it is the index, 2 or more, of a vocabulary word other than the
\* out-of-vocabulary token; 1 never occurs.
PaddedEntriesAreValidIndices ==
    /\ Completed("pad_sequences") =>
          \A count \in {[i \in 1..Len(sentences) |-> TokenCount(sentences[i])]},
             size \in {Cardinality(DOMAIN word_index) + 1},
             used \in {{word_index[w] : w \in DOMAIN word_index \ {OovToken}}} :
              \A i \in 1..Len(padded_sequences) :
                  \A j \in 1..Len(padded_sequences[i]) :
                      LET v == padded_sequences[i][j]
                      IN  /\ v >= 0
                          /\ v < size
                          /\ v # 1
                          /\ j > count[i] => v = 0
                          /\ j <= count[i] => v >= 2 /\ v \in used
    /\ Completed("build") =>
          \A i \in 1..Len(padded_sequences) :
              \A j \in 1..Len(padded_sequences[i]) :
                  padded_sequences[i][j] < model.layers[1].input_dim

\* C10's case: padded rows holding a word written in upper case in the
\* sentence, the largest index of the vocabulary, and a padding zero.
PaddedEntriesWitness ==
    /\ Completed("build")
    /\ PatA \in Range(sentences)
    /\ \E i \in 1..Len(padded_sequences) :
          \E j \in 1..Len(padded_sequences[i]) :
              padded_sequences[i][j] = Cardinality(DOMAIN word_index)
    /\ \E i \in 1..Len(padded_sequences) :
          /\ sentences[i] = PatC
          /\ padded_sequences[i] = <<0, 0, 0>>

====
